---- MODULE Spec2Model ----
\* YourTubes (src/main.py): channel-URL resolution with a persisted identifier
\* cache, upload fetching, keyword filtering, and the memoized aggregation.
\*
\* Text is modelled as a sequence of symbols.  A channel URL is a sequence of
\* URL symbols ("/", "@", and whole words such as "channel"); a title, a
\* description or a keyword is a sequence of letters; a publishedAt stamp is a
\* sequence of digits compared lexically, as Python compares strings.
EXTENDS Integers, Sequences, FiniteSets, TLC

VARIABLES
    config,      \* module global `config` (main.py:41): channels, keywords, channel_ids
    disk,        \* config.json on disk
    memo,        \* st.cache_data store of get_cached_videos (main.py:115)
    pc,          \* position inside get_cached_videos: "idle" | "resolve" | "resolved"
    args,        \* arguments of the running / last get_cached_videos call
    idx,         \* loop position in `for channel in channels`
    all_videos,  \* local all_videos
    channel_id,  \* local channel_id (an Option)
    ret,         \* outcome of the last get_cached_videos call
    calls,       \* number of get_cached_videos calls made so far
    rlog,        \* observation of the last get_channel_id call
    clog,        \* observation of the running / last get_cached_videos call
    computed,    \* history: key -> result of the latest execution of the body
    flog         \* observation of the last filter_relevant_content call

vars == <<config, disk, memo, pc, args, idx, all_videos, channel_id, ret,
          calls, rlog, clog, computed, flog>>

----------------------------------------------------------------------------
\* Generic text helpers (Python str operations used by main.py)

Last(s) == s[Len(s)]

\* s[k .. k+Len(sub)-1] = sub
MatchAt(s, sub, k) == /\ k + Len(sub) - 1 <= Len(s)
                      /\ SubSeq(s, k, k + Len(sub) - 1) = sub

\* Python `sub in s`
Contains(s, sub) == \E k \in 1..(Len(s) + 1) : MatchAt(s, sub, k)

\* index of the leftmost occurrence of sub in s (sub non-empty, Contains holds)
FirstIdx(s, sub) == CHOOSE k \in 1..Len(s) :
                        /\ MatchAt(s, sub, k)
                        /\ \A j \in 1..(k - 1) : ~MatchAt(s, sub, j)

\* Python `s.split(sep)`: the pieces between the non-overlapping occurrences
\* of sep, scanned left to right
RECURSIVE Split(_, _)
Split(s, sep) ==
    IF ~Contains(s, sep)
    THEN << s >>
    ELSE LET k == FirstIdx(s, sep)
         IN  << SubSeq(s, 1, k - 1) >> \o Split(SubSeq(s, k + Len(sep), Len(s)), sep)

\* Python `s.startswith(p)`
StartsWith(s, p) == MatchAt(s, p, 1)

\* Python None / a value
None == [some |-> FALSE, val |-> << >>]
Some(v) == [some |-> TRUE, val |-> v]

\* Python truthiness of `channel_id` (None and "" are falsy)
Truthy(o) == o.some /\ o.val # << >>

----------------------------------------------------------------------------
\* Configuration and its file

EmptyMap == [r \in {} |-> << >>]

\* dict assignment d[k] = v
Put(d, k, v) == [x \in (DOMAIN d) \cup {k} |-> IF x = k THEN v ELSE d[x]]

default_config == [channels |-> << >>, keywords |-> << >>, channel_ids |-> EmptyMap]

\* The file: absent, or holding a JSON object.  has_ids tells whether the
\* stored object has the 'channel_ids' key.
File(st, c, h) == [state |-> st, content |-> c, has_ids |-> h]
AbsentFile == File("absent", default_config, FALSE)
GoodFile(c) == File("ok", c, TRUE)

\* load_config(): the configuration it returns and the file it leaves
load_config(file) ==
    IF file.state = "absent"
    THEN [config |-> default_config, file |-> GoodFile(default_config)]
    ELSE IF ~file.has_ids
         THEN [config |-> [file.content EXCEPT !.channel_ids = EmptyMap], file |-> file]
         ELSE [config |-> file.content, file |-> file]

\* Outcomes of writing config.json: the write completes, or open() raises
\* (OSError: read-only or full file system) and the file is untouched
SaveOutcomes == {"ok", "open_fails"}

\* save_config() with the given outcome: did it return, and the file it leaves
save_config(cfg, file, outcome) ==
    CASE outcome = "ok"         -> [ok |-> TRUE,  file |-> GoodFile(cfg)]
      [] outcome = "open_fails" -> [ok |-> FALSE, file |-> file]

----------------------------------------------------------------------------
\* Identifier resolver

Slash == << "/" >>
ChannelSeg == << "/", "channel", "/" >>
UserSeg == << "/", "user", "/" >>
CSeg == << "/", "c", "/" >>
At == << "@" >>

\* Responses of youtube.search().list(type="channel", q=..., maxResults=1).execute()
SearchIds == { << "UCabc" >> }
SearchOutcomes ==
    {[kind |-> "ok", items |-> << >>], [kind |-> "error", items |-> << >>]}
    \cup {[kind |-> "ok", items |-> << [channelId |-> c] >>] : c \in SearchIds}

\* Result of one get_channel_id call
ResolveResult(r, cfg, file, q, s) ==
    [result |-> r, config |-> cfg, file |-> file, queries |-> q, saves |-> s]

\* CacheAndSave without the write: the mapping stays in memory only
CacheAndSave_writeBack(cfg, file, channel_url, id, queries, save) ==
    ResolveResult(Some(id), [cfg EXCEPT !.channel_ids = Put(@, channel_url, id)],
                  file, queries, 0)

\* main.py:84-90: cache the id, save, return it; `except Exception` turns a
\* failing save into None
CacheAndSave(cfg, file, channel_url, id, queries, save) ==
    LET cfg2 == [cfg EXCEPT !.channel_ids = Put(@, channel_url, id)]
        w == save_config(cfg2, file, save)
    IN  IF w.ok
        THEN ResolveResult(Some(id), cfg2, w.file, queries, 1)
        ELSE ResolveResult(None, cfg2, w.file, queries, 1)

\* main.py:65-67
Username(channel_url) ==
    LET username == Last(Split(channel_url, Slash))
    IN  IF StartsWith(username, At) THEN Tail(username) ELSE username

\* DirectId taking the last path component instead
DirectId_lastComponent(channel_url) == Last(Split(channel_url, Slash))

\* main.py:63: channel_url.split('/channel/')[1]
DirectId(channel_url) == Split(channel_url, ChannelSeg)[2]

\* main.py:61-90: the reference is not cached
ResolveUncached(cfg, file, channel_url, search, save) ==
    IF Contains(channel_url, ChannelSeg)
    THEN CacheAndSave(cfg, file, channel_url, DirectId(channel_url), << >>, save)
    ELSE IF \/ Contains(channel_url, UserSeg)
            \/ Contains(channel_url, CSeg)
            \/ Contains(channel_url, At)
    THEN LET username == Username(channel_url)
         IN  IF search.kind = "error"
             THEN ResolveResult(None, cfg, file, << username >>, 0)
             ELSE IF search.items # << >>
             THEN CacheAndSave(cfg, file, channel_url, search.items[1].channelId,
                               << username >>, save)
             ELSE ResolveResult(None, cfg, file, << username >>, 0)
    ELSE ResolveResult(None, cfg, file, << >>, 0)

\* get_channel_id without the look-up in the cache
get_channel_id_noCache(cfg, file, channel_url, search, save) ==
    ResolveUncached(cfg, file, channel_url, search, save)

\* main.py:56-90
get_channel_id(cfg, file, channel_url, search, save) ==
    IF channel_url \in DOMAIN cfg.channel_ids
    THEN ResolveResult(Some(cfg.channel_ids[channel_url]), cfg, file, << >>, 0)
    ELSE ResolveUncached(cfg, file, channel_url, search, save)

----------------------------------------------------------------------------
\* Videos, the fetcher, the filter and the sort

\* str.lower() on the letters the model uses: the upper-case letters and
\* their lower-case forms; every other symbol is left alone
CasePairs == { << "R", "r" >>, << "U", "u" >>, << "S", "s" >>, << "T", "t" >>,
               << "G", "g" >>, << "O", "o" >>, << "L", "l" >> }

LowerChar(c) == IF \E p \in CasePairs : p[1] = c
                THEN (CHOOSE p \in CasePairs : p[1] = c)[2]
                ELSE c

Lower(s) == [k \in 1..Len(s) |-> LowerChar(s[k])]

\* One item of a search response (snippet fields used by main.py)
Video(i, t, d, p) == [id |-> i, title |-> t, description |-> d, publishedAt |-> p]

\* Relevant comparing the keyword as written with the lowered texts
Relevant_keywordAsWritten(video, keywords) ==
    \E n \in 1..Len(keywords) :
        \/ Contains(Lower(video.title), keywords[n])
        \/ Contains(Lower(video.description), keywords[n])

\* main.py:110-112, the condition of the comprehension
Relevant(video, keywords) ==
    \E n \in 1..Len(keywords) :
        \/ Contains(Lower(video.title), Lower(keywords[n]))
        \/ Contains(Lower(video.description), Lower(keywords[n]))

filter_relevant_content(videos, keywords) ==
    SelectSeq(videos, LAMBDA video : Relevant(video, keywords))

\* KeywordStep filtering whenever a list is given, empty or not
KeywordStep_noGuard(videos, keywords) ==
    IF keywords.some THEN filter_relevant_content(videos, keywords.val) ELSE videos

\* main.py:122-123: `if keywords: videos = filter_relevant_content(...)`
\* (keywords is an Option: the parameter defaults to None)
KeywordStep(videos, keywords) ==
    IF Truthy(keywords) THEN filter_relevant_content(videos, keywords.val) ELSE videos

\* Outcomes of youtube.search().list(channelId=..., type="video").execute():
\* a response, an HttpError (the API reports an error), or an error of the
\* transport (httplib2 / socket), which is no HttpError
FetchOk(items) == [kind |-> "ok", items |-> items]
FetchHttpError == [kind |-> "HttpError", items |-> << >>]
FetchTransportError == [kind |-> "TransportError", items |-> << >>]

\* fetch_latest_videos: the list it returns, or the exception leaves it
fetch_latest_videos(cid, max_results, outcome) ==
    CASE outcome.kind = "ok"             -> [raised |-> FALSE, videos |-> outcome.items]
      [] outcome.kind = "HttpError"      -> [raised |-> FALSE, videos |-> << >>]
      [] outcome.kind = "TransportError" -> [raised |-> TRUE,  videos |-> << >>]

\* Python's < on strings: lexicographic
RECURSIVE StrLess(_, _)
StrLess(a, b) ==
    IF a = << >> THEN b # << >>
    ELSE IF b = << >> THEN FALSE
    ELSE IF a[1] < b[1] THEN TRUE
    ELSE IF a[1] > b[1] THEN FALSE
    ELSE StrLess(Tail(a), Tail(b))

\* InsertDesc placing x before the elements of equal key
RECURSIVE InsertDesc_beforeEqual(_, _)
InsertDesc_beforeEqual(sorted, x) ==
    IF sorted = << >> THEN << x >>
    ELSE IF ~StrLess(x.publishedAt, Head(sorted).publishedAt)
         THEN << x >> \o sorted
         ELSE << Head(sorted) >> \o InsertDesc_beforeEqual(Tail(sorted), x)

\* Insert x into a list sorted by publishedAt descending, behind every element
\* whose key is not smaller (sorted(..., reverse=True) keeps equal keys in
\* their original order)
RECURSIVE InsertDesc(_, _)
InsertDesc(sorted, x) ==
    IF sorted = << >> THEN << x >>
    ELSE IF StrLess(Head(sorted).publishedAt, x.publishedAt)
         THEN << x >> \o sorted
         ELSE << Head(sorted) >> \o InsertDesc(Tail(sorted), x)

\* main.py:127
RECURSIVE SortedByPublishedDesc(_)
SortedByPublishedDesc(s) ==
    IF s = << >> THEN << >>
    ELSE InsertDesc(SortedByPublishedDesc(SubSeq(s, 1, Len(s) - 1)), Last(s))

----------------------------------------------------------------------------
\* Inputs: channel references, configuration files, videos, keywords

Host == << "https:", "/", "/", "example.com" >>

RDirect      == Host \o << "/", "channel", "/", "UC123" >>
RHandle      == Host \o << "/", "@", "someHandle" >>
RUser        == Host \o << "/", "user", "/", "someHandle" >>
RCustom      == Host \o << "/", "c", "/", "other" >>
RInvalid     == Host \o << "/", "watch" >>
RBoth        == Host \o << "/", "channel", "/", "@", "someHandle" >>
RDirectEmpty == Host \o << "/", "channel", "/" >>
RDirectTrail == Host \o << "/", "channel", "/", "UC123", "/", "videos" >>
RHandleSlash == Host \o << "/", "@", "someHandle", "/" >>
RBare        == << "@", "someHandle" >>
RDirectTwice == Host \o << "/", "channel", "/", "UC123", "/", "channel", "/", "UC9" >>

ResolverRefs == {RDirect, RHandle, RUser, RCustom, RInvalid, RBoth,
                 RDirectEmpty, RDirectTrail, RHandleSlash, RBare, RDirectTwice}

\* config.json as found at start-up: absent, written by an older version
\* (no 'channel_ids'), or holding a cache
InitialFiles ==
    { AbsentFile,
      File("ok", [channels |-> << RHandle >>, keywords |-> << >>,
                  channel_ids |-> EmptyMap], FALSE),
      GoodFile([channels |-> << RHandle, RDirect >>, keywords |-> << >>,
                channel_ids |-> Put(Put(EmptyMap, RHandle, << "UCa" >>),
                                    RDirect, << "UCold" >>)]) }

T1 == << 2, 0, 2, 1 >>
T2 == << 2, 0, 2, 2 >>
T3 == << 2, 0, 2, 3 >>

VRust  == Video("v1", << "L", " ", "R", "U", "S", "T", " ", "b" >>, << >>, T3)
VGo    == Video("v2", << "L", " ", "G", "o" >>, << >>, T2)
VDesc  == Video("v3", << "G", "o" >>, << "r", "u", "s", "t" >>, T2)
VTrust == Video("v4", << "T", "r", "u", "s", "t" >>, << "g" >>, T1)

Videos == {VRust, VGo, VDesc, VTrust}

KwRust  == << "r", "u", "s", "t" >>
KwGo    == << "G", "O" >>
KwEmpty == << >>

Keywords == {KwRust, KwGo, KwEmpty}

\* all sequences over S of length at most n
SeqsUpTo(S, n) == UNION {[1..m -> S] : m \in 0..n}

----------------------------------------------------------------------------
\* Observations and initial values

NoRet == [status |-> "none", value |-> << >>]
Returned(v) == [status |-> "returned", value |-> v]
Raised == [status |-> "raised", value |-> << >>]

NoArgs == [channels |-> << >>, max_results |-> 0, keywords |-> None]

NoRlog == [called |-> FALSE, ref |-> << >>, pre |-> EmptyMap, predisk |-> AbsentFile,
           result |-> None, post |-> EmptyMap, postdisk |-> AbsentFile,
           queries |-> << >>, saves |-> 0, save |-> "ok"]

\* what one get_channel_id call was given, found, did and left
Rlog(ref, cfg, file, r, save) ==
    [called |-> TRUE, ref |-> ref, pre |-> cfg.channel_ids, predisk |-> file,
     result |-> r.result, post |-> r.config.channel_ids, postdisk |-> r.file,
     queries |-> r.queries, saves |-> r.saves, save |-> save]

NoClog == [status |-> "none", args |-> NoArgs, hit |-> FALSE, expected |-> FALSE,
           afterRefresh |-> FALSE, invalidated |-> FALSE,
           searches |-> 0, fetches |-> 0, saves |-> 0,
           cfg0 |-> default_config, disk0 |-> AbsentFile,
           cfg1 |-> default_config, disk1 |-> AbsentFile,
           chans |-> << >>, concat |-> << >>]

\* what get_cached_videos did for one channel of its list
Chan(ref, id, fetch, items) == [ref |-> ref, id |-> id, fetch |-> fetch, items |-> items]

NoFlog == [called |-> "no", videos |-> << >>, keywords |-> None, out |-> << >>]

\* the variables a specification does not use
InitPipeline ==
    /\ memo = EmptyMap
    /\ pc = "idle"
    /\ args = NoArgs
    /\ idx = 0
    /\ all_videos = << >>
    /\ channel_id = None
    /\ ret = NoRet
    /\ clog = NoClog
    /\ computed = EmptyMap

\* module start-up, main.py:41: config = load_config()
InitConfig ==
    \E f \in InitialFiles :
        /\ config = load_config(f).config
        /\ disk = load_config(f).file

pipelineVars == <<memo, pc, args, idx, all_videos, channel_id, ret, clog, computed>>

----------------------------------------------------------------------------
\* The filter on its own

MaxItems == 3
MaxKeywords == 2

FilterInputs ==
    [videos : SeqsUpTo(Videos, MaxItems),
     keywords : {None} \cup {Some(k) : k \in SeqsUpTo(Keywords, MaxKeywords)}]

InitFilter ==
    /\ InitPipeline
    /\ config = default_config
    /\ disk = GoodFile(default_config)
    /\ calls = 0
    /\ rlog = NoRlog
    /\ \E in \in FilterInputs :
           flog = [called |-> "no", videos |-> in.videos, keywords |-> in.keywords,
                   out |-> << >>]

\* a direct call filter_relevant_content(videos, keywords)
FilterCall ==
    /\ flog.called = "no"
    /\ flog.keywords.some
    /\ flog' = [flog EXCEPT !.called = "function",
                            !.out = filter_relevant_content(flog.videos, flog.keywords.val)]
    /\ UNCHANGED <<config, disk, calls, rlog>>
    /\ UNCHANGED pipelineVars

\* the filter as get_cached_videos applies it (main.py:122-123)
FilterStep ==
    /\ flog.called = "no"
    /\ flog' = [flog EXCEPT !.called = "step",
                            !.out = KeywordStep(flog.videos, flog.keywords)]
    /\ UNCHANGED <<config, disk, calls, rlog>>
    /\ UNCHANGED pipelineVars

NextFilter == FilterCall \/ FilterStep

SpecFilter == InitFilter /\ [][NextFilter]_vars

----------------------------------------------------------------------------
\* The resolver on its own

MaxResolveCalls == 2

\* a call get_channel_id(ref)
ResolveCall ==
    /\ calls < MaxResolveCalls
    /\ \E ref \in ResolverRefs, search \in SearchOutcomes, save \in SaveOutcomes :
           \E r \in {get_channel_id(config, disk, ref, search, save)} :
               /\ config' = r.config
               /\ disk' = r.file
               /\ rlog' = Rlog(ref, config, disk, r, save)
    /\ calls' = calls + 1
    /\ UNCHANGED flog
    /\ UNCHANGED pipelineVars

\* a rerun of the script executes main.py:41 again
Load ==
    /\ pc = "idle"
    /\ config' = load_config(disk).config
    /\ disk' = load_config(disk).file
    /\ config' # config
    /\ UNCHANGED <<calls, rlog, flog>>
    /\ UNCHANGED pipelineVars

\* "Save Configuration", main.py:144-149: the lists are set, then the file is
\* written; a failing write leaves the lists set
SaveConfiguration(ChannelLists, KeywordLists, Outcomes) ==
    /\ pc = "idle"
    /\ \E ch \in ChannelLists, kw \in KeywordLists, outcome \in Outcomes :
           LET cfg2 == [config EXCEPT !.channels = ch, !.keywords = kw]
           IN  /\ config' = cfg2
               /\ disk' = save_config(cfg2, disk, outcome).file
    /\ UNCHANGED <<calls, rlog, flog>>
    /\ UNCHANGED pipelineVars

ResolverChannelLists == { << RHandle, RInvalid >> }

InitResolve ==
    /\ InitPipeline
    /\ InitConfig
    /\ calls = 0
    /\ rlog = NoRlog
    /\ flog = NoFlog

NextResolve ==
    \/ ResolveCall
    \/ Load
    \/ SaveConfiguration(ResolverChannelLists, { << >> }, {"ok"})

SpecResolve == InitResolve /\ [][NextResolve]_vars

----------------------------------------------------------------------------
\* get_cached_videos behind st.cache_data(ttl=86400)

TTL == 86400

\* time advances in steps of half a TTL
TickLen == TTL \div 2

Min(a, b) == IF a < b THEN a ELSE b

\* MemoKey leaving the keywords out
MemoKey_noKeywords(a) == << a.channels, a.max_results >>

\* the key st.cache_data derives from the arguments of the call
MemoKey(a) == << a.channels, a.max_results, a.keywords >>

\* an entry is served until it is TTL seconds old
Live(m, key) == key \in DOMAIN m /\ m[key].age < TTL

Entry(v) == [value |-> v, age |-> 0, invalidated |-> FALSE]

\* What the platform holds: the uploads of each channel, in the order the
\* search call lists them.  A response carries the first max_results of them.
Uploads(cid) ==
    CASE cid = << "UC123" >> -> << VRust, VTrust >>
      [] cid = << "UCabc" >> -> << VDesc, VGo >>
      [] cid = << "UCold" >> -> << VTrust, VGo >>
      [] cid = << "UCa" >>   -> << VDesc >>
      [] OTHER               -> << >>

FetchOutcomes(cid, max_results) ==
    { FetchOk(SubSeq(Uploads(cid), 1, Min(max_results, Len(Uploads(cid))))),
      FetchHttpError, FetchTransportError }

\* return sorted(all_videos, ...) and the decorator storing the result
Finish(all) ==
    LET result == SortedByPublishedDesc(all)
    IN  /\ ret' = Returned(result)
        /\ memo' = Put(memo, MemoKey(args), Entry(result))
        /\ computed' = Put(computed, args, Entry(result))
        /\ pc' = "idle"

\* end of one loop iteration: the next channel, or the return
Advance(all, log) ==
    /\ all_videos' = all
    /\ IF idx < Len(args.channels)
       THEN /\ idx' = idx + 1
            /\ pc' = "resolve"
            /\ clog' = log
            /\ UNCHANGED <<ret, memo, computed>>
       ELSE /\ idx' = idx
            /\ clog' = [log EXCEPT !.status = "returned", !.concat = all,
                                   !.cfg1 = config, !.disk1 = disk]
            /\ Finish(all)

\* a call get_cached_videos(channels, max_results, keywords): served from the
\* store, or the body starts (and ends at once for an empty list)
Call(ArgSet, bound) ==
    /\ pc = "idle"
    /\ calls < bound
    /\ calls' = calls + 1
    /\ \E a \in ArgSet :
        LET key == MemoKey(a)
            log == [NoClog EXCEPT
                       !.args = a,
                       !.afterRefresh = clog.invalidated,
                       !.expected = /\ a \in DOMAIN computed
                                    /\ computed[a].age < TTL
                                    /\ ~computed[a].invalidated,
                       !.cfg0 = config, !.disk0 = disk,
                       !.cfg1 = config, !.disk1 = disk]
        IN  /\ args' = a
            /\ IF Live(memo, MemoKey(a))
               THEN /\ ret' = Returned(memo[MemoKey(a)].value)
                    /\ clog' = [log EXCEPT !.status = "returned", !.hit = TRUE]
                    /\ UNCHANGED <<pc, idx, all_videos, channel_id, memo, computed>>
               ELSE IF a.channels = << >>
               THEN /\ clog' = [log EXCEPT !.status = "returned"]
                    /\ ret' = Returned(SortedByPublishedDesc(<< >>))
                    /\ memo' = Put(memo, key, Entry(SortedByPublishedDesc(<< >>)))
                    /\ computed' = Put(computed, a, Entry(SortedByPublishedDesc(<< >>)))
                    /\ all_videos' = << >>
                    /\ UNCHANGED <<pc, idx, channel_id>>
               ELSE /\ clog' = [log EXCEPT !.status = "running"]
                    /\ pc' = "resolve"
                    /\ idx' = 1
                    /\ all_videos' = << >>
                    /\ ret' = NoRet
                    /\ UNCHANGED <<channel_id, memo, computed>>
    /\ UNCHANGED <<config, disk, rlog, flog>>

\* main.py:119: channel_id = get_channel_id(channel)
ResolveStep ==
    /\ pc = "resolve"
    /\ \E search \in SearchOutcomes, save \in SaveOutcomes :
           \E r \in {get_channel_id(config, disk, args.channels[idx], search, save)} :
               /\ config' = r.config
               /\ disk' = r.file
               /\ channel_id' = r.result
               /\ rlog' = Rlog(args.channels[idx], config, disk, r, save)
               /\ clog' = [clog EXCEPT !.searches = @ + Len(r.queries),
                                       !.saves = @ + r.saves]
    /\ pc' = "resolved"
    /\ UNCHANGED <<memo, args, idx, all_videos, ret, calls, computed, flog>>

\* main.py:120-124: the channel resolved; fetch, filter, extend.  An exception
\* leaving fetch_latest_videos leaves get_cached_videos too: nothing is stored.
FetchStep ==
    /\ pc = "resolved"
    /\ Truthy(channel_id)
    /\ \E outcome \in FetchOutcomes(channel_id.val, args.max_results) :
           \E f \in {fetch_latest_videos(channel_id.val, args.max_results, outcome)} :
               LET log == [clog EXCEPT
                              !.fetches = @ + 1,
                              !.chans = Append(@, Chan(args.channels[idx], channel_id,
                                                       outcome.kind, f.videos))]
               IN  IF f.raised
                   THEN /\ pc' = "idle"
                        /\ ret' = Raised
                        /\ clog' = [log EXCEPT !.status = "raised",
                                               !.cfg1 = config, !.disk1 = disk]
                        /\ UNCHANGED <<idx, all_videos, memo, computed>>
                   ELSE Advance(all_videos \o KeywordStep(f.videos, args.keywords), log)
    /\ UNCHANGED <<config, disk, args, channel_id, calls, rlog, flog>>

\* main.py:125-126: no channel id; warn and go on
SkipStep ==
    /\ pc = "resolved"
    /\ ~Truthy(channel_id)
    /\ Advance(all_videos,
               [clog EXCEPT !.chans = Append(@, Chan(args.channels[idx], channel_id,
                                                     "none", << >>))])
    /\ UNCHANGED <<config, disk, args, channel_id, calls, rlog, flog>>

\* "Refresh Videos", main.py:152-154: st.cache_data.clear(), then a rerun
Refresh ==
    /\ pc = "idle"
    /\ memo' = EmptyMap
    /\ computed' = [k \in DOMAIN computed |-> [computed[k] EXCEPT !.invalidated = TRUE]]
    /\ clog' = [clog EXCEPT !.invalidated = TRUE]
    /\ UNCHANGED <<config, disk, pc, args, idx, all_videos, channel_id, ret, calls,
                   rlog, flog>>

\* time passes between two script runs; entries that reach the TTL are dropped
Tick ==
    /\ pc = "idle"
    /\ memo # EmptyMap
    /\ LET aged == [k \in DOMAIN memo |-> [memo[k] EXCEPT !.age = @ + TickLen]]
       IN  memo' = [k \in {x \in DOMAIN aged : aged[x].age < TTL} |-> aged[k]]
    /\ computed' = [k \in DOMAIN computed |->
                        [computed[k] EXCEPT !.age = Min(@ + TickLen, TTL)]]
    /\ UNCHANGED <<config, disk, pc, args, idx, all_videos, channel_id, ret, calls,
                   rlog, clog, flog>>

----------------------------------------------------------------------------
\* The aggregation pipeline: one script run after start-up.  main() calls
\* get_cached_videos once per run (main.py:156).

MaxChannels == 3
CallsPerRun == 1

PipelineRefs == {RDirect, RHandle, RInvalid}

PipelineArgs ==
    [channels : SeqsUpTo(PipelineRefs, MaxChannels),
     max_results : {1, 2},
     keywords : {None, Some(<< >>), Some(<< KwRust >>)}]

Init ==
    /\ InitPipeline
    /\ InitConfig
    /\ calls = 0
    /\ rlog = NoRlog
    /\ flog = NoFlog

Next ==
    \/ Call(PipelineArgs, CallsPerRun)
    \/ ResolveStep
    \/ FetchStep
    \/ SkipStep

Spec == Init /\ [][Next]_vars

----------------------------------------------------------------------------
\* The memoization store over several script runs

MaxMemoCalls == 2

MemoArgs ==
    [channels : { << RHandle >>, << RDirect >> },
     max_results : {1},
     keywords : {Some(<< >>), Some(<< KwRust >>)}]

NextMemo ==
    \/ Call(MemoArgs, MaxMemoCalls)
    \/ ResolveStep
    \/ FetchStep
    \/ SkipStep
    \/ Refresh
    \/ Tick
    \/ Load

SpecMemo == Init /\ [][NextMemo]_vars

----------------------------------------------------------------------------
\* Properties of the resolver (checked under SpecResolve)

\* the call the observation is about found the reference in the cache / not
CachedCall == rlog.called /\ rlog.ref \in DOMAIN rlog.pre
UncachedCall == rlog.called /\ rlog.ref \notin DOMAIN rlog.pre

\* C1: a call of get_channel_id on a reference that is a key of the
\* identifier cache returns exactly the cached identifier, sends no search
\* request, and leaves the configuration and its file as they were.
C1_CachedNoExternalCall ==
    CachedCall =>
        /\ rlog.result = Some(rlog.pre[rlog.ref])
        /\ rlog.queries = << >>
        /\ rlog.saves = 0
        /\ rlog.post = rlog.pre
        /\ rlog.postdisk = rlog.predisk

\* a second call on the direct-ID URL whose cached identifier is not the one
\* in the URL, after an earlier call has resolved another reference
C1_Witness ==
    /\ CachedCall
    /\ calls = MaxResolveCalls
    /\ rlog.ref = RDirect
    /\ rlog.result = Some(<< "UCold" >>)
    /\ RBoth \in DOMAIN rlog.pre

\* the text behind the last "/" of a reference, without one leading "@"
TrailingComponent(ref) ==
    LET slashes == {k \in 1..Len(ref) : ref[k] = "/"}
        from == IF slashes = {} THEN 1
                ELSE (CHOOSE k \in slashes : \A j \in slashes : j <= k) + 1
    IN  SubSeq(ref, from, Len(ref))

WithoutAt(t) == IF t # << >> /\ t[1] = "@" THEN SubSeq(t, 2, Len(t)) ELSE t

\* a username or handle reference that is no direct-ID reference
SearchShaped(ref) ==
    /\ ~Contains(ref, ChannelSeg)
    /\ \/ Contains(ref, UserSeg)
       \/ Contains(ref, CSeg)
       \/ \E k \in 1..Len(ref) : ref[k] = "@"

\* C8: when get_channel_id returns an identifier for a reference that was not
\* cached, the cache maps the reference to that identifier in memory and in
\* config.json, and save_config ran exactly once and completed; for a
\* username or handle reference exactly one search was sent, for the last
\* path component without its leading "@".
C8_WriteThrough ==
    (UncachedCall /\ rlog.result.some) =>
        /\ rlog.ref \in DOMAIN rlog.post
        /\ rlog.post[rlog.ref] = rlog.result.val
        /\ rlog.postdisk.state = "ok"
        /\ rlog.postdisk.has_ids
        /\ rlog.ref \in DOMAIN rlog.postdisk.content.channel_ids
        /\ rlog.postdisk.content.channel_ids[rlog.ref] = rlog.result.val
        /\ rlog.postdisk.content.channel_ids = rlog.post
        /\ rlog.saves = 1
        /\ rlog.save = "ok"
        /\ SearchShaped(rlog.ref) =>
               rlog.queries = << WithoutAt(TrailingComponent(rlog.ref)) >>

\* the handle URL, not cached, resolved by one search for "someHandle"
C8_Witness ==
    /\ UncachedCall
    /\ rlog.ref = RHandle
    /\ rlog.result = Some(<< "UCabc" >>)
    /\ rlog.queries = << << "someHandle" >> >>
    /\ rlog.postdisk.content.channel_ids[RHandle] = << "UCabc" >>

\* the positions at which "/channel/" starts in a text
ChannelSegAt(t) == {n \in 1..Len(t) : MatchAt(t, ChannelSeg, n)}

Least(S) == CHOOSE n \in S : \A j \in S : n <= j

\* the text of a reference behind its first "/channel/", up to the next
\* "/channel/" if there is one
AfterChannelSeg(ref) ==
    LET rest == SubSeq(ref, Least(ChannelSegAt(ref)) + Len(ChannelSeg), Len(ref))
    IN  IF ChannelSegAt(rest) = {} THEN rest
        ELSE SubSeq(rest, 1, Least(ChannelSegAt(rest)) - 1)

DirectCall == UncachedCall /\ Contains(rlog.ref, ChannelSeg)

\* C9 as stated: for an uncached reference with a "/channel/" segment,
\* get_channel_id sends no search and returns the identifier as it stands in
\* the URL, also when the reference has the handle shape as well.
C9_DirectIdAlwaysReturned ==
    DirectCall =>
        /\ rlog.queries = << >>
        /\ rlog.result = Some(AfterChannelSeg(rlog.ref))

\* C9 amended: ... sends no search, and returns the identifier as it stands in
\* the URL (the text behind "/channel/") if config.json could be written,
\* None if the write failed.
C9_DirectIdUnlessSaveFails ==
    DirectCall =>
        /\ rlog.queries = << >>
        /\ rlog.saves = 1
        /\ rlog.save = "ok" => rlog.result = Some(AfterChannelSeg(rlog.ref))
        /\ rlog.save # "ok" => rlog.result = None

\* the URL with both shapes resolved as a direct ID, without a search
C9_Witness ==
    /\ DirectCall
    /\ rlog.ref = RBoth
    /\ rlog.result = Some(<< "@", "someHandle" >>)
    /\ rlog.queries = << >>

\* C10: whenever get_channel_id returns None, the identifier cache in memory
\* is what it was before the call.
C10_FailedResolveLeavesCache ==
    (rlog.called /\ ~rlog.result.some) => rlog.post = rlog.pre

----------------------------------------------------------------------------
\* Properties of the filter (checked under SpecFilter)

SameLetter(a, b) == a = b \/ << a, b >> \in CasePairs \/ << b, a >> \in CasePairs

\* k occurs in s when the case of letters is ignored
OccursIgnoringCase(k, s) ==
    \E p \in 0..(Len(s) - Len(k)) :
        \A j \in 1..Len(k) : SameLetter(k[j], s[p + j])

Matches(v, kws) ==
    \E n \in 1..Len(kws) :
        OccursIgnoringCase(kws[n], v.title) \/ OccursIgnoringCase(kws[n], v.description)

\* the elements of s at the positions in P, in increasing order of position
Pick(s, P) ==
    [j \in 1..Cardinality(P) |->
        s[CHOOSE n \in P : Cardinality({m \in P : m < n}) = j - 1]]

\* C6 as stated: filter_relevant_content with an empty keyword list returns
\* the items unchanged.
C6_FunctionIdentityOnEmpty ==
    (flog.called = "function" /\ flog.keywords.val = << >>) => flog.out = flog.videos

\* C6 amended: the filter step of get_cached_videos leaves the items unchanged
\* when the keyword list is empty or None; filter_relevant_content itself,
\* given an empty keyword list, returns the empty list.
C6_StepIdentityOnEmpty ==
    /\ (flog.called = "step" /\ ~Truthy(flog.keywords)) => flog.out = flog.videos
    /\ (flog.called = "function" /\ flog.keywords.val = << >>) => flog.out = << >>

\* the step applied to two items with an empty keyword list
C6_Witness ==
    /\ flog.called = "step"
    /\ flog.keywords = Some(<< >>)
    /\ flog.videos = << VGo, VRust >>
    /\ flog.out = << VGo, VRust >>

\* C7: with a non-empty keyword list the filter returns exactly the items, in
\* their original order, in whose title or description at least one keyword
\* occurs when case is ignored.
C7_FilterExact ==
    (flog.called # "no" /\ Truthy(flog.keywords)) =>
        flog.out = Pick(flog.videos,
                        {n \in 1..Len(flog.videos) :
                            Matches(flog.videos[n], flog.keywords.val)})

\* keyword "rust": "L RUST b" is kept, "L Go" is dropped
C7_Witness ==
    /\ flog.called = "function"
    /\ flog.keywords = Some(<< KwRust >>)
    /\ flog.videos = << VGo, VRust, VGo >>
    /\ flog.out = << VRust >>

----------------------------------------------------------------------------
\* Properties of the aggregation (checked under Spec)

RECURSIVE Flatten(_)
Flatten(ss) == IF ss = << >> THEN << >> ELSE Head(ss) \o Flatten(Tail(ss))

\* what the channels handled so far contributed, in list order: the items
\* each fetch returned that pass the keyword filter
Contributions ==
    Flatten([n \in 1..Len(clog.chans) |->
                IF Truthy(clog.args.keywords)
                THEN Pick(clog.chans[n].items,
                          {m \in 1..Len(clog.chans[n].items) :
                              Matches(clog.chans[n].items[m], clog.args.keywords.val)})
                ELSE clog.chans[n].items])

Stamps(s) == {s[n].publishedAt : n \in 1..Len(s)}

WithStamp(s, t) == SelectSeq(s, LAMBDA v : v.publishedAt = t)

BodyReturned == clog.status = "returned" /\ ~clog.hit

\* C3: the list get_cached_videos returns is ordered by publishedAt
\* descending, and items of equal publishedAt keep the order they have in the
\* concatenation (channel-list order, then response order within a channel).
C3_SortedDescendingStable ==
    BodyReturned =>
        /\ clog.concat = Contributions
        /\ Len(ret.value) = Len(clog.concat)
        /\ \A m, n \in 1..Len(ret.value) :
               m < n => ~StrLess(ret.value[m].publishedAt, ret.value[n].publishedAt)
        /\ \A t \in Stamps(clog.concat) :
               WithStamp(ret.value, t) = WithStamp(clog.concat, t)

\* the first channel yields [T1, T2], the second [T2]: the two T2 items come
\* first, the first channel's before the second's
C3_Witness ==
    /\ BodyReturned
    /\ clog.concat = << VTrust, VGo, VDesc >>
    /\ ret.value = << VGo, VDesc, VTrust >>

\* a channel of the running call for which get_channel_id gave no identifier
SomeChannelSkipped ==
    \E n \in 1..Len(clog.chans) : ~Truthy(clog.chans[n].id)

\* C4: once a channel of the list was skipped because its resolution failed,
\* the call still handles every other channel and returns, and every item of
\* every resolved channel that passes the filter is in the result.
C4_SkipDoesNotBlockOthers ==
    SomeChannelSkipped =>
        /\ clog.status # "raised"
        /\ clog.status = "returned" =>
               /\ Len(clog.chans) = Len(clog.args.channels)
               /\ \A n \in 1..Len(clog.chans) :
                      Truthy(clog.chans[n].id) => clog.chans[n].fetch # "none"
               /\ \A n \in 1..Len(Contributions) :
                      \E m \in 1..Len(ret.value) : ret.value[m] = Contributions[n]

\* C5: when the fetch for a channel fails, by an error of the transport or by
\* an error the API reports, fetch_latest_videos yields the empty list and
\* get_cached_videos goes on: the call does not end by an exception.
C5_FetchFailureYieldsEmpty ==
    \A n \in 1..Len(clog.chans) :
        clog.chans[n].fetch \in {"HttpError", "TransportError"} =>
            /\ clog.chans[n].items = << >>
            /\ clog.status # "raised"

----------------------------------------------------------------------------
\* Properties of the memoization (checked under SpecMemo)

\* C2: a call whose argument tuple was computed less than a TTL ago, with no
\* Refresh since, is served from the store: it returns the result computed
\* then, sends no search and no fetch request and writes no configuration.
\* The first call after a Refresh is never served from the store: the body
\* runs again.
C2_MemoizedUntilInvalidated ==
    /\ (clog.status # "none" /\ clog.expected) => clog.hit
    /\ clog.hit =>
           /\ clog.args \in DOMAIN computed
           /\ ret = Returned(computed[clog.args].value)
           /\ clog.status = "returned"
           /\ clog.searches = 0 /\ clog.fetches = 0 /\ clog.saves = 0
           /\ clog.chans = << >>
           /\ clog.cfg1 = clog.cfg0 /\ clog.disk1 = clog.disk0
    /\ (clog.status # "none" /\ clog.afterRefresh) => ~clog.hit

\* a second call with the same tuple, half a TTL after the first, served from
\* the store with a non-empty result
C2_Witness ==
    /\ clog.hit
    /\ clog.expected
    /\ clog.args.keywords = Some(<< KwRust >>)
    /\ computed[clog.args].age = TickLen
    /\ ret.value # << >>

\* a call after Refresh with a tuple computed before: the body runs again
C2_RecomputedAfterRefresh ==
    /\ clog.afterRefresh
    /\ clog.args \in DOMAIN computed
    /\ clog.status = "running"
    /\ pc = "resolved"

====
